---------------------------- MODULE Spec2Model ----------------------------
(***************************************************************************)
(* api-test-rs: the batch dispatcher (ApiTestApp::send_http_batch), the    *)
(* UI-side statistics recording (process_http_responses /                  *)
(* handle_http_response, the Send and Cancel buttons) and the WebSocket    *)
(* session manager task with its reader and writer tasks                   *)
(* (ApiTestApp::new).                                                      *)
(***************************************************************************)
EXTENDS Integers, Sequences, FiniteSets, TLC

(***************************************************************************)
(* Bounds of the model.                                                    *)
(***************************************************************************)
\* largest value the user types into the Count field
MaxCount == 3
\* number of batch runs started in one behaviour
MaxBatches == 1
\* width of usize in the model (64 in the program)
UsizeBits == 8
\* number of commands (Send, Close, ReadMessage) the UI issues to the session
MaxWsCommands == 4
\* number of connection attempts that succeed
MaxConns == 2
\* number of frames the server sends
MaxInbound == 1
\* length of the texts given to parse_var_str
MaxTextLen == 7
\* number of rows of a variable table
MaxVars == 2
\* number of pieces a form-data value is made of
MaxPieces == 5
\* number of header rows of a request template
MaxHeaders == 2
\* number of requests of a batch whose template has scripts
MaxCalls == 2
\* most samples of a reservoir, most calls of add_response_time on it
MaxSamples == 4
MaxAdds == 5
\* largest value of the counters success and failed
MaxCounter == 10

(***************************************************************************)
(* Program constants, scaled down so that the ceilings are reached.        *)
(***************************************************************************)
\* main.rs:1465  let max_concurrent = 10000; (the ceiling of the contract
\* dispatch(template, vars, count, max_concurrency))
max_concurrent == 2
\* main.rs:187   mpsc::channel(100000)
HTTP_CHANNEL_CAPACITY == 2
\* main.rs:1514  const MAX_PROCESS_PER_FRAME: usize = 1000;
MAX_PROCESS_PER_FRAME == 2
\* main.rs:242, 301  tokio::sync::mpsc::channel::<WsMessage>(32)
WS_CHANNEL_CAPACITY == 1
\* lib.rs: let max_samples = 100000.min(self.send_count)
max_samples == 100000

VARIABLES
    \* ---- HTTP batch runs ----
    select_test,      \* ApiTestApp.select_test: NoTest or a test id
    stats,            \* test id -> HttpTest.stats (RequestStats)
    send_count,       \* test id -> HttpTest.send_count
    batch,            \* the spawned send_http_batch tasks, in spawn order
    http_rx,          \* the (http_tx, http_rx) channel: outcomes in flight to the UI
    ui_pc,            \* position of the UI thread inside update()
    processed,        \* process_http_responses: local `processed`
    overflow_checks,  \* the build: TRUE = arithmetic overflow panics (debug)
    app,              \* "running", or "panicked" once the UI thread has panicked
    \* ---- WebSocket session ----
    ws_rx,            \* the (ws_tx, ws_rx) channel: commands of the UI to the manager
    mgr_pc,           \* manager task: "recv", "connecting" (in connect_async), "dead"
    mgr_cfg,          \* manager task: `cfg` of the Send being handled
    need_init,        \* the shared flag Arc<Mutex<bool>>
    need_init_lock,   \* 0: the mutex is free; c: held by the reader task of connection c
    tx,               \* manager task: `_tx` (0: None, c: the channel to the writer of c)
    conns,            \* the connections made so far, with their reader and writer tasks
    ws_messages,      \* the shared message log
    last_write,       \* the last frame written by a writer task, with the Send it answers
    ws_cmds,          \* number of commands the UI has issued
    inbound,          \* number of frames received from the server
    \* ---- calls of the request compiler's functions ----
    fn_pc,            \* "idle", "called" or "returned"
    fn_call,          \* the function called and its arguments
    fn_ret,           \* the value returned
    \* ---- requests with scripts ----
    project_variables,  \* ApiTestApp.project.variables
    calls               \* the calls of util::http_send of the batch

http_vars == <<select_test, stats, send_count, batch, http_rx, ui_pc, processed,
               overflow_checks, app>>
ws_vars == <<ws_rx, mgr_pc, mgr_cfg, need_init, need_init_lock, tx, conns,
             ws_messages, last_write, ws_cmds, inbound>>
fn_vars == <<fn_pc, fn_call, fn_ret>>
send_vars == <<project_variables, calls>>
vars == <<http_vars, ws_vars, fn_vars, send_vars>>
\* what the batch runs leave alone, what the WebSocket session leaves alone,
\* and what a call of a function on its own leaves alone
not_http_vars == <<ws_vars, fn_vars, send_vars>>
not_ws_vars == <<http_vars, fn_vars, send_vars>>
not_fn_vars == <<http_vars, ws_vars, send_vars>>

\* no function of the request compiler is being called
InitFnIdle ==
    /\ fn_pc = "idle"
    /\ fn_call = <<>>
    /\ fn_ret = <<>>

\* no request with scripts is being sent
InitSendIdle ==
    /\ project_variables = <<>>
    /\ calls = <<>>

\* the tests of the project, by index
Tests == {1, 2}
NoTest == 0
UsizeModulus == 2 ^ UsizeBits
UsizeMax == UsizeModulus - 1

\* Result<HttpResponse>: Ok with a 2xx status, Ok with another status, Err
Results == {"Ok2xx", "OkNon2xx", "Err"}

(***************************************************************************)
(* lib.rs: RequestStats (Default) and HttpTest::send_before_init.          *)
(***************************************************************************)
DefaultStats ==
    [pending |-> 0, sending |-> 0, success |-> 0, failed |-> 0,
     total_end_time |-> FALSE]

\* send_before_init: fresh statistics with pending = send_count
send_before_init(n) ==
    [pending |-> n, sending |-> 0, success |-> 0, failed |-> 0,
     total_end_time |-> FALSE]

total_requests(s) == s.success + s.failed

(***************************************************************************)
(* main.rs: send_http_batch.                                               *)
(***************************************************************************)
\* inner loop condition, without the ceiling
CanPushNoCeiling(sent, count, len) == sent < count

\* inner loop condition: while sent < send_count && futures.len() < max_concurrent
CanPush(sent, count, len) == sent < count /\ len < max_concurrent

\* outer loop condition, forgetting the futures still in flight
LoopCondSentOnly(sent, count, len) == sent < count

\* outer loop condition: while sent < send_count || !futures.is_empty()
LoopCond(sent, count, len) == sent < count \/ len > 0

\* the inner loop: push futures while CanPush; yields <<sent, futures.len()>>
RECURSIVE FillLoop(_, _, _)
FillLoop(sent, count, len) ==
    IF CanPush(sent, count, len)
    THEN FillLoop(sent + 1, count, len + 1)
    ELSE <<sent, len>>

\* one pass of the outer loop body up to the await, or the exit of the loop
LoopPass(b) ==
    IF LoopCond(b.sent, b.count, b.futures)
    THEN LET f == FillLoop(b.sent, b.count, b.futures)
         IN  [b EXCEPT !.sent = f[1], !.futures = f[2], !.pc = "await"]
    ELSE [b EXCEPT !.pc = "done"]

\* the spawned task starts running: first pass of the loop
send_http_batch_start(i) ==
    /\ app = "running"
    /\ batch[i].pc = "spawned"
    /\ batch' = [batch EXCEPT ![i] = LoopPass(batch[i])]
    /\ UNCHANGED <<select_test, stats, send_count, http_rx, ui_pc, processed,
                   overflow_checks, app>>
    /\ UNCHANGED not_http_vars

\* futures.next().await returns: one in-flight future has finished http_send
\* with result r and has put it on the channel (tx.send(result).await needs
\* room in the channel); then the loop goes round
send_http_batch_next(i, r) ==
    /\ app = "running"
    /\ batch[i].pc = "await"
    /\ batch[i].futures > 0
    /\ Len(http_rx) < HTTP_CHANNEL_CAPACITY
    /\ http_rx' = Append(http_rx, [batch |-> i, result |-> r])
    /\ batch' = [batch EXCEPT
                   ![i] = LoopPass([batch[i] EXCEPT !.futures = @ - 1])]
    /\ UNCHANGED <<select_test, stats, send_count, ui_pc, processed,
                   overflow_checks, app>>
    /\ UNCHANGED not_http_vars

(***************************************************************************)
(* main.rs: handle_http_response and process_http_responses.               *)
(***************************************************************************)
\* `x -= 1` on a usize of a build without overflow checks
wrapping_dec(x) == IF x = 0 THEN UsizeMax ELSE x - 1

\* the counters after one outcome: sending -= 1, then success or failed += 1,
\* then total_end_time when sending == 0
RecordOk2xx(s) ==
    LET s1 == [s EXCEPT !.sending = wrapping_dec(@), !.success = @ + 1]
    IN  IF s1.sending = 0 THEN [s1 EXCEPT !.total_end_time = TRUE] ELSE s1

RecordFailed(s) ==
    LET s1 == [s EXCEPT !.sending = wrapping_dec(@), !.failed = @ + 1]
    IN  IF s1.sending = 0 THEN [s1 EXCEPT !.total_end_time = TRUE] ELSE s1

RecordErr(s) == RecordFailed(s)

Record(s, r) ==
    CASE r = "Ok2xx"    -> RecordOk2xx(s)
      [] r = "OkNon2xx" -> RecordFailed(s)
      [] r = "Err"      -> RecordErr(s)

\* the test handle_http_response writes to: the one selected when the
\* outcome is processed
TargetTest(o) == select_test

\* handle_http_response(result): returns when no test is selected; panics on
\* `sending -= 1` at 0 in a build with overflow checks
handle_http_response(o) ==
    LET t == TargetTest(o)
    IN  IF t = NoTest
        THEN UNCHANGED <<stats, app>>
        ELSE IF stats[t].sending = 0 /\ overflow_checks
        THEN /\ app' = "panicked"
             /\ UNCHANGED stats
        ELSE /\ stats' = [stats EXCEPT ![t] = Record(@, o.result)]
             /\ UNCHANGED app

\* one iteration of the loop of process_http_responses: try_recv, handle
process_http_responses_recv ==
    /\ app = "running"
    /\ ui_pc = "process"
    /\ processed < MAX_PROCESS_PER_FRAME
    /\ http_rx # <<>>
    /\ handle_http_response(Head(http_rx))
    /\ http_rx' = Tail(http_rx)
    /\ batch' = [batch EXCEPT ![Head(http_rx).batch].taken = @ + 1]
    /\ processed' = processed + 1
    /\ UNCHANGED <<select_test, send_count, ui_pc, overflow_checks>>
    /\ UNCHANGED not_http_vars

\* the loop ends: the frame limit is reached or try_recv finds nothing (the
\* local `processed` is dead from here on)
process_http_responses_break ==
    /\ app = "running"
    /\ ui_pc = "process"
    /\ (processed >= MAX_PROCESS_PER_FRAME \/ http_rx = <<>>)
    /\ ui_pc' = "panels"
    /\ processed' = 0
    /\ UNCHANGED <<select_test, stats, send_count, batch, http_rx,
                   overflow_checks, app>>
    /\ UNCHANGED not_http_vars

(***************************************************************************)
(* main.rs: the panels of one frame; at most one click per frame.          *)
(***************************************************************************)
EndFrame ==
    /\ ui_pc' = "process"
    /\ UNCHANGED processed

\* a frame without a click
ui_no_click ==
    /\ app = "running"
    /\ ui_pc = "panels"
    /\ EndFrame
    /\ UNCHANGED <<select_test, stats, send_count, batch, http_rx,
                   overflow_checks, app>>
    /\ UNCHANGED not_http_vars

\* ui_left_panel: a click on the label of test t
ui_left_panel_select(t) ==
    /\ app = "running"
    /\ ui_pc = "panels"
    /\ select_test' = t
    /\ EndFrame
    /\ UNCHANGED <<stats, send_count, batch, http_rx, overflow_checks, app>>
    /\ UNCHANGED not_http_vars

\* load_project / create_project: the project is replaced (statistics are not
\* persisted) and nothing is selected
load_project ==
    /\ app = "running"
    /\ ui_pc = "panels"
    /\ select_test # NoTest
    /\ select_test' = NoTest
    /\ stats' = [t \in Tests |-> DefaultStats]
    /\ send_count' = [t \in Tests |-> 0]
    /\ EndFrame
    /\ UNCHANGED <<batch, http_rx, overflow_checks, app>>
    /\ UNCHANGED not_http_vars

is_running(t) == stats[t].sending > 0

\* ui_right_panel: the Send button of an HTTP test, with n typed as Count
ui_right_panel_send(n) ==
    /\ app = "running"
    /\ ui_pc = "panels"
    /\ select_test # NoTest
    /\ ~is_running(select_test)
    /\ send_count' = [send_count EXCEPT ![select_test] = n]
    /\ IF n <= 0
       THEN /\ stats' = [stats EXCEPT ![select_test] = send_before_init(n)]
            /\ UNCHANGED batch
       ELSE /\ Len(batch) < MaxBatches
            /\ stats' = [stats EXCEPT ![select_test] =
                            [send_before_init(n) EXCEPT !.pending = 0,
                                                        !.sending = n]]
            /\ batch' = Append(batch,
                            [test |-> select_test, count |-> n, sent |-> 0,
                             futures |-> 0, pc |-> "spawned",
                             cancelled |-> FALSE, taken |-> 0])
    /\ EndFrame
    /\ UNCHANGED <<select_test, http_rx, overflow_checks, app>>
    /\ UNCHANGED not_http_vars

\* ui_right_panel: the Cancel button (shown while is_running)
ui_right_panel_cancel ==
    /\ app = "running"
    /\ ui_pc = "panels"
    /\ select_test # NoTest
    /\ is_running(select_test)
    /\ stats' = [stats EXCEPT ![select_test].sending = 0,
                              ![select_test].total_end_time = TRUE]
    /\ batch' = [i \in DOMAIN batch |->
                   IF batch[i].test = select_test /\ batch[i].pc # "done"
                   THEN [batch[i] EXCEPT !.cancelled = TRUE]
                   ELSE batch[i]]
    /\ EndFrame
    /\ UNCHANGED <<select_test, send_count, http_rx, overflow_checks, app>>
    /\ UNCHANGED not_http_vars

(***************************************************************************)
(* The batch runs: initial state and steps.                                *)
(***************************************************************************)
InitHttpVars ==
    /\ select_test \in {NoTest, 1}
    /\ stats = [t \in Tests |-> DefaultStats]
    /\ send_count = [t \in Tests |-> 0]
    /\ batch = <<>>
    /\ http_rx = <<>>
    /\ ui_pc = "process"
    /\ processed = 0
    /\ overflow_checks \in BOOLEAN
    /\ app = "running"

BatchStep ==
    \/ \E i \in DOMAIN batch : send_http_batch_start(i)
    \/ \E i \in DOMAIN batch : \E r \in Results : send_http_batch_next(i, r)

UiStep ==
    \/ process_http_responses_recv
    \/ process_http_responses_break
    \/ ui_no_click

UserStep ==
    \/ \E t \in Tests : ui_left_panel_select(t)
    \/ load_project
    \/ \E n \in 0..MaxCount : ui_right_panel_send(n)
    \/ ui_right_panel_cancel

(***************************************************************************)
(* main.rs, ApiTestApp::new: the WebSocket session.                        *)
(***************************************************************************)
\* request templates of WS tests: url_ok says whether the URL, after variable
\* substitution, parses; body_raw names the text or the file
CfgA == [url_ok |-> TRUE, body_raw_type |-> "Text", body_raw |-> "a"]
CfgB == [url_ok |-> TRUE, body_raw_type |-> "BinaryFile", body_raw |-> "f"]
CfgBad == [url_ok |-> FALSE, body_raw_type |-> "Text", body_raw |-> "a"]
WsTemplates == {CfgA, CfgB, CfgBad}

NoCfg == [url_ok |-> TRUE, body_raw_type |-> "Text", body_raw |-> ""]
NoWrite == [cfg |-> NoCfg, frame |-> <<"None", "">>, conn |-> 0]

WsSend(cfg) == [type |-> "Send", cfg |-> cfg]
WsClose == [type |-> "Close", cfg |-> NoCfg]
WsReadMessage == [type |-> "ReadMessage", cfg |-> NoCfg]

\* the frame a body and its kind make: a text frame for Text, otherwise a
\* binary frame with the bytes of the file body_raw names
FrameOf(cfg) ==
    IF cfg.body_raw_type = "Text"
    THEN <<"Text", cfg.body_raw>>
    ELSE <<"Binary", cfg.body_raw>>

\* the template the writer task builds its frame from: `cfg`, captured from
\* the Send that opened the connection (the message's own is not used)
WriterCfg(c, msg) == conns[c].cfg

\* the receiving end rx_w of the writer's channel exists until the writer
\* task has ended
RxAlive(c) == conns[c].writer \in {"running", "closing"}

\* tx.send(m).await returns: at once with an error when the receiver is gone,
\* otherwise once the channel has room
CanSendW(c) == ~RxAlive(c) \/ Len(conns[c].rx_w) < WS_CHANNEL_CAPACITY

SendW(c, m) ==
    IF RxAlive(c)
    THEN [conns EXCEPT ![c].rx_w = Append(@, m)]
    ELSE conns

\* `if let Some(tx) = _tx.as_mut() { tx.send(msg).await; }`
Forward(msg) ==
    IF tx = 0
    THEN UNCHANGED conns
    ELSE /\ CanSendW(tx)
         /\ conns' = SendW(tx, msg)


\* the manager's test: the message is a Send and need_init is set
Connects(msg) == need_init /\ msg.type = "Send"

\* manager task: one message from ws_rx
ws_manager_recv ==
    /\ mgr_pc = "recv"
    /\ ws_rx # <<>>
    /\ need_init_lock = 0
    /\ LET msg == Head(ws_rx)
       IN  IF Connects(msg)
           THEN IF msg.cfg.url_ok
                THEN /\ mgr_pc' = "connecting"
                     /\ mgr_cfg' = msg.cfg
                     /\ ws_rx' = Tail(ws_rx)
                     /\ UNCHANGED conns
                ELSE \* Url::parse(..).expect("parse url"): the task panics
                     /\ mgr_pc' = "dead"
                     /\ ws_rx' = <<>>
                     /\ UNCHANGED <<mgr_cfg, conns>>
           ELSE /\ Forward(msg)
                /\ ws_rx' = Tail(ws_rx)
                /\ UNCHANGED <<mgr_pc, mgr_cfg>>
    /\ UNCHANGED <<need_init, need_init_lock, tx, ws_messages, last_write,
                   ws_cmds, inbound>>
    /\ UNCHANGED not_ws_vars

\* connect_async succeeds: the flag is cleared, the channel to the writer is
\* made, the reader and the writer task are spawned
ws_connect_ok ==
    /\ mgr_pc = "connecting"
    /\ need_init_lock = 0
    /\ Len(conns) < MaxConns
    /\ need_init' = FALSE
    /\ conns' = Append(conns, [cfg |-> mgr_cfg, reader |-> "running",
                               writer |-> "running", rx_w |-> <<>>])
    /\ tx' = Len(conns) + 1
    /\ mgr_pc' = "recv"
    /\ mgr_cfg' = NoCfg
    /\ UNCHANGED <<ws_rx, need_init_lock, ws_messages, last_write, ws_cmds,
                   inbound>>
    /\ UNCHANGED not_ws_vars

\* connect_async fails
ws_connect_err ==
    /\ mgr_pc = "connecting"
    /\ ws_messages' = Append(ws_messages, "ConnectError")
    /\ mgr_pc' = "recv"
    /\ mgr_cfg' = NoCfg
    /\ UNCHANGED <<ws_rx, need_init, need_init_lock, tx, conns, last_write,
                   ws_cmds, inbound>>
    /\ UNCHANGED not_ws_vars

\* reader task: r.next() yields a frame
ws_reader_frame(c) ==
    /\ conns[c].reader = "running"
    /\ inbound < MaxInbound
    /\ inbound' = inbound + 1
    /\ ws_messages' = Append(ws_messages, "Frame")
    /\ UNCHANGED <<ws_rx, mgr_pc, mgr_cfg, need_init, need_init_lock, tx,
                   conns, last_write, ws_cmds>>
    /\ UNCHANGED not_ws_vars

\* reader task: r.next() yields an error
ws_reader_error(c) ==
    /\ conns[c].reader = "running"
    /\ ws_messages' = ws_messages \o <<"ReadError", "SendErrorDisconnected">>
    /\ conns' = [conns EXCEPT ![c].reader = "closing"]
    /\ UNCHANGED <<ws_rx, mgr_pc, mgr_cfg, need_init, need_init_lock, tx,
                   last_write, ws_cmds, inbound>>
    /\ UNCHANGED not_ws_vars

\* reader task: the stream ends
ws_reader_end(c) ==
    /\ conns[c].reader = "running"
    /\ conns' = [conns EXCEPT ![c].reader = "closing"]
    /\ UNCHANGED <<ws_rx, mgr_pc, mgr_cfg, need_init, need_init_lock, tx,
                   ws_messages, last_write, ws_cmds, inbound>>
    /\ UNCHANGED not_ws_vars

\* reader task after its loop: takes the mutex, sets the flag and sends Close
\* to its writer, holding the mutex until the send has returned
ws_reader_exit(c) ==
    /\ conns[c].reader = "closing"
    /\ need_init_lock = 0
    /\ need_init' = TRUE
    /\ IF CanSendW(c)
       THEN /\ conns' = [SendW(c, WsClose) EXCEPT ![c].reader = "done"]
            /\ UNCHANGED need_init_lock
       ELSE /\ conns' = [conns EXCEPT ![c].reader = "sending"]
            /\ need_init_lock' = c
    /\ UNCHANGED <<ws_rx, mgr_pc, mgr_cfg, tx, ws_messages, last_write,
                   ws_cmds, inbound>>
    /\ UNCHANGED not_ws_vars

\* reader task: the blocked send of Close returns
ws_reader_sent(c) ==
    /\ conns[c].reader = "sending"
    /\ CanSendW(c)
    /\ conns' = [SendW(c, WsClose) EXCEPT ![c].reader = "done"]
    /\ need_init_lock' = 0
    /\ UNCHANGED <<ws_rx, mgr_pc, mgr_cfg, need_init, tx, ws_messages,
                   last_write, ws_cmds, inbound>>
    /\ UNCHANGED not_ws_vars

\* writer task: one message from rx_w. For a Send: file_ok says whether
\* read_binary finds the file (its result is unwrapped), sent_ok whether
\* w.send succeeds
ws_writer_recv(c, file_ok, sent_ok) ==
    /\ conns[c].writer = "running"
    /\ conns[c].rx_w # <<>>
    /\ LET msg == Head(conns[c].rx_w)
           rest == Tail(conns[c].rx_w)
           cfg == WriterCfg(c, msg)
       IN  CASE msg.type = "Close" ->
                  /\ conns' = [conns EXCEPT ![c].rx_w = rest,
                                            ![c].writer = "closing"]
                  /\ UNCHANGED <<ws_messages, last_write>>
             [] msg.type = "ReadMessage" ->
                  /\ conns' = [conns EXCEPT ![c].rx_w = rest]
                  /\ UNCHANGED <<ws_messages, last_write>>
             [] msg.type = "Send" ->
                  IF cfg.body_raw_type # "Text" /\ ~file_ok
                  THEN \* read_binary(..).await.unwrap(): the task panics
                       /\ conns' = [conns EXCEPT ![c].rx_w = <<>>,
                                                 ![c].writer = "panicked"]
                       /\ UNCHANGED <<ws_messages, last_write>>
                  ELSE IF sent_ok
                  THEN /\ conns' = [conns EXCEPT ![c].rx_w = rest]
                       /\ last_write' = [cfg |-> msg.cfg, frame |-> FrameOf(cfg),
                                         conn |-> c]
                       /\ UNCHANGED ws_messages
                  ELSE /\ conns' = [conns EXCEPT ![c].rx_w = rest,
                                                 ![c].writer = "closing"]
                       /\ ws_messages' = Append(ws_messages, "SendError")
                       /\ UNCHANGED last_write
    /\ UNCHANGED <<ws_rx, mgr_pc, mgr_cfg, need_init, need_init_lock, tx,
                   ws_cmds, inbound>>
    /\ UNCHANGED not_ws_vars

\* writer task after its loop: takes the mutex and sets the flag; the task
\* ends and rx_w is dropped
ws_writer_exit(c) ==
    /\ conns[c].writer = "closing"
    /\ need_init_lock = 0
    /\ need_init' = TRUE
    /\ conns' = [conns EXCEPT ![c].writer = "done", ![c].rx_w = <<>>]
    /\ UNCHANGED <<ws_rx, mgr_pc, mgr_cfg, need_init_lock, tx, ws_messages,
                   last_write, ws_cmds, inbound>>
    /\ UNCHANGED not_ws_vars

\* the UI spawns `tx.send(m).await` on ws_tx: Send of a WS test with template
\* cfg, "WS Clone" (Close), or the ReadMessage of a frame
ws_ui_command(m) ==
    /\ ws_cmds < MaxWsCommands
    /\ ws_cmds' = ws_cmds + 1
    /\ IF mgr_pc = "dead"
       THEN UNCHANGED ws_rx
       ELSE /\ Len(ws_rx) < WS_CHANNEL_CAPACITY
            /\ ws_rx' = Append(ws_rx, m)
    /\ UNCHANGED <<mgr_pc, mgr_cfg, need_init, need_init_lock, tx, conns,
                   ws_messages, last_write, inbound>>
    /\ UNCHANGED not_ws_vars

InitWsVars ==
    /\ ws_rx = <<>>
    /\ mgr_pc = "recv"
    /\ mgr_cfg = NoCfg
    /\ need_init = TRUE
    /\ need_init_lock = 0
    /\ tx = 0
    /\ conns = <<>>
    /\ ws_messages = <<>>
    /\ last_write = NoWrite
    /\ ws_cmds = 0
    /\ inbound = 0

InitWs ==
    /\ InitWsVars
    /\ InitHttpVars
    /\ InitFnIdle
    /\ InitSendIdle
    /\ select_test = 1
    /\ overflow_checks = FALSE

ManagerStep ==
    \/ ws_manager_recv
    \/ ws_connect_ok
    \/ ws_connect_err

ReaderEvent ==
    \/ \E c \in DOMAIN conns : ws_reader_frame(c)
    \/ \E c \in DOMAIN conns : ws_reader_error(c)
    \/ \E c \in DOMAIN conns : ws_reader_end(c)

ReaderStep(c) == ws_reader_exit(c) \/ ws_reader_sent(c)

WriterStep(c) ==
    \/ \E file_ok, sent_ok \in BOOLEAN : ws_writer_recv(c, file_ok, sent_ok)
    \/ ws_writer_exit(c)

WsUiStep ==
    \/ \E cfg \in WsTemplates : ws_ui_command(WsSend(cfg))
    \/ ws_ui_command(WsClose)
    \/ ws_ui_command(WsReadMessage)

NextWs ==
    \/ ManagerStep
    \/ ReaderEvent
    \/ \E c \in DOMAIN conns : ws_reader_exit(c)
    \/ \E c \in DOMAIN conns : ws_reader_sent(c)
    \/ \E c \in DOMAIN conns :
          \E file_ok, sent_ok \in BOOLEAN : ws_writer_recv(c, file_ok, sent_ok)
    \/ \E c \in DOMAIN conns : ws_writer_exit(c)
    \/ WsUiStep

SpecWs == InitWs /\ [][NextWs]_vars

\* the runtime schedules the manager, reader and writer tasks; nothing is
\* assumed of the server or of the user
FairSpecWs ==
    /\ SpecWs
    /\ WF_vars(ManagerStep)
    /\ \A c \in 1..MaxConns : WF_vars(c \in DOMAIN conns /\ ReaderStep(c))
    /\ \A c \in 1..MaxConns : WF_vars(c \in DOMAIN conns /\ WriterStep(c))

(***************************************************************************)
(* The specifications of the batch runs.                                   *)
(***************************************************************************)
InitHttp == InitHttpVars /\ InitWsVars /\ InitFnIdle /\ InitSendIdle

NextHttp == BatchStep \/ UiStep \/ UserStep

SpecHttp == InitHttp /\ [][NextHttp]_vars

\* the runtime schedules every spawned task, the transport answers every
\* request, and the UI keeps running frames
FairSpecHttp ==
    /\ SpecHttp
    /\ \A i \in 1..MaxBatches :
          WF_vars(i \in DOMAIN batch /\ send_http_batch_start(i))
    /\ \A i \in 1..MaxBatches :
          WF_vars(i \in DOMAIN batch
                      /\ \E r \in Results : send_http_batch_next(i, r))
    /\ WF_vars(UiStep)

(***************************************************************************)
(* Claims about the batch dispatcher and the statistics.                   *)
(***************************************************************************)
\* outcomes of batch i that are on the channel
InChannel(i) == Cardinality({k \in DOMAIN http_rx : http_rx[k].batch = i})

\* the step that takes one outcome off the channel and hands it to
\* handle_http_response
TakesOutcome == http_rx # <<>> /\ http_rx' = Tail(http_rx)

\* the test whose Send button started the run the next outcome belongs to
OriginTest == batch[Head(http_rx).batch].test

\* C1: in every reachable state, every send_http_batch task has at most
\* max_concurrent requests pushed and not yet completed.
C1_InFlightBounded ==
    \A i \in DOMAIN batch : batch[i].futures <= max_concurrent

\* C1 witness: the ceiling binds: a task is at the ceiling with requests
\* still unscheduled.
C1_Witness ==
    \E i \in DOMAIN batch :
        /\ batch[i].pc = "await"
        /\ batch[i].futures = max_concurrent
        /\ batch[i].sent < batch[i].count

\* every outcome a batch has produced is on the channel or has been taken by
\* the consumer, one per completed request; a finished loop has produced
\* exactly count of them
C2_Accounting ==
    \A i \in DOMAIN batch :
        /\ batch[i].taken + InChannel(i) + batch[i].futures = batch[i].sent
        /\ batch[i].sent <= batch[i].count
        /\ batch[i].pc = "done" =>
              /\ batch[i].futures = 0
              /\ batch[i].taken + InChannel(i) = batch[i].count

\* C2: a batch of count requests puts exactly count outcomes on the channel,
\* none lost or duplicated, and (the transport answering and the UI thread
\* draining the channel, i.e. not having panicked) its loop terminates with
\* all count outcomes delivered.
C2_ExactlyCountAndTerminates ==
    /\ []C2_Accounting
    /\ \A i \in 1..MaxBatches :
          [](i \in DOMAIN batch =>
                <>(\/ app = "panicked"
                   \/ /\ i \in DOMAIN batch
                      /\ batch[i].pc = "done"
                      /\ batch[i].taken = batch[i].count))

\* C2 witness: a batch larger than the ceiling has finished and all its outcomes
\* have been taken.
C2_Witness ==
    \E i \in DOMAIN batch :
        /\ batch[i].pc = "done"
        /\ batch[i].count > max_concurrent
        /\ batch[i].taken = batch[i].count

\* C3 (as claimed): once Cancel has been pressed on a run whose loop is
\* already waiting on its in-flight requests, the run starts no further
\* request.
C3_NoStartAfterCancel ==
    [][\A i \in DOMAIN batch :
          (batch[i].cancelled /\ batch[i].pc = "await")
              => batch'[i].sent = batch[i].sent]_vars

\* C4 (as claimed): an Err outcome taken off the channel is counted exactly
\* once in `failed` of the run's own test.
C4_ErrCountedOnce ==
    [][(TakesOutcome /\ Head(http_rx).result = "Err")
          => stats'[OriginTest].failed = stats[OriginTest].failed + 1]_vars

\* C5 (as claimed): recording an outcome (a test is selected when it is
\* handled) takes sending down by exactly one and success + failed up by
\* exactly one, each of success and failed growing by at most one, in the
\* same step.
C5_RecordIsOneStep ==
    [][(TakesOutcome /\ select_test # NoTest)
          => /\ stats'[select_test].sending = stats[select_test].sending - 1
             /\ total_requests(stats'[select_test])
                    = total_requests(stats[select_test]) + 1
             /\ stats'[select_test].success \in
                    {stats[select_test].success, stats[select_test].success + 1}
             /\ stats'[select_test].failed \in
                    {stats[select_test].failed, stats[select_test].failed + 1}]_vars

\* C6 (as claimed): every outcome is handled with the test that started its
\* run selected, so that it is recorded there, nowhere else, and not dropped.
C6_RecordedInOwnTest ==
    [][TakesOutcome => select_test = OriginTest]_vars

(***************************************************************************)
(* Claims about the WebSocket session.                                     *)
(***************************************************************************)
\* connection c is open: its reader and its writer task are both in their
\* loops
ConnOpen(c) == conns[c].reader = "running" /\ conns[c].writer = "running"

\* the manager handles a Send whose URL parses
HandlesSend ==
    /\ ws_manager_recv
    /\ Head(ws_rx).type = "Send"
    /\ Head(ws_rx).cfg.url_ok

\* C7 (as claimed): a Send handled while the current connection is open is
\* put on the channel of that connection's writer and starts no connection
\* attempt; a Send handled while the session is Uninitialized or Closed
\* (need_init set) starts a connection attempt.
C7_SendForwardsOrConnects ==
    [][HandlesSend =>
          /\ (tx # 0 /\ ConnOpen(tx)) =>
                /\ mgr_pc' = "recv"
                /\ conns'[tx].rx_w = Append(conns[tx].rx_w, Head(ws_rx))
          /\ need_init => mgr_pc' = "connecting"]_vars

\* C8 (as claimed): at most one reader task and at most one writer task are
\* in their loops at any moment.
C8_OneReaderOneWriter ==
    /\ Cardinality({c \in DOMAIN conns : conns[c].reader = "running"}) <= 1
    /\ Cardinality({c \in DOMAIN conns : conns[c].writer = "running"}) <= 1

\* C9 (as claimed): a Close command that reaches the manager brings the
\* session to Closed (need_init set).
C9_CloseLeadsToClosed ==
    (ws_rx # <<>> /\ Head(ws_rx).type = "Close") ~> need_init

\* C10 (as claimed): the frame written for a Send is the frame of the body
\* and body kind of the template that Send carries.
C10_FrameOfOwnTemplate ==
    last_write.conn # 0 => last_write.frame = FrameOf(last_write.cfg)

\* a connection attempt fails: connect_async returns an error, or the URL of
\* the Send that asks for the connection does not parse
FailedAttempt ==
    \/ ws_connect_err
    \/ /\ ws_manager_recv
       /\ Connects(Head(ws_rx))
       /\ ~Head(ws_rx).cfg.url_ok

\* C11 (as claimed): a failed connection attempt, whatever its cause, appends
\* one error entry to the message log and leaves the manager task receiving
\* commands.
C11_FailedAttemptLogged ==
    [][FailedAttempt =>
          /\ ws_messages' = Append(ws_messages, "ConnectError")
          /\ mgr_pc' = "recv"]_vars

\* the reader task of connection c leaves its loop (read error or end of
\* the stream)
ReaderLeavesLoop(c) ==
    /\ conns[c].reader = "running"
    /\ conns'[c].reader = "closing"

\* C12 (as claimed): when a reader task leaves its loop, on a read error as
\* on the end of the stream, an error entry is appended to the message log.
C12_ReaderExitLogged ==
    [][\A c \in DOMAIN conns :
          ReaderLeavesLoop(c) => Len(ws_messages') > Len(ws_messages)]_vars

(***************************************************************************)
(* util.rs: parse_var_str, the resolver of {{ name }} tokens.  Strings are *)
(* sequences of characters.                                                *)
(***************************************************************************)
\* the characters of the texts
Chars == {"{", "}", "k", " "}
\* the strings of at most n characters
Str(n) == UNION {[1..m -> Chars] : m \in 0..n}

\* lib.rs: struct PairUi { key, value, disable }; the variables have key "k"
VarValues == {<<"v">>, <<"w">>}
PairUi == [key : {<<"k">>}, value : VarValues, disable : BOOLEAN]
\* the variable tables of at most n rows
Tables(n) == UNION {[1..m -> PairUi] : m \in 0..n}

\* str::trim
RECURSIVE trim_start(_)
trim_start(s) ==
    IF s # <<>> /\ Head(s) = " " THEN trim_start(Tail(s)) ELSE s
RECURSIVE trim_end(_)
trim_end(s) ==
    IF s # <<>> /\ s[Len(s)] = " "
    THEN trim_end(SubSeq(s, 1, Len(s) - 1))
    ELSE s
trim(s) == trim_end(trim_start(s))

\* vars.iter().find(|e| e.key.eq(var_name)): the index of the first row with
\* that key, 0 when there is none; `disable` is not read
find(rows, name) ==
    IF \E i \in DOMAIN rows : rows[i].key = name
    THEN CHOOSE i \in DOMAIN rows :
            /\ rows[i].key = name
            /\ \A j \in 1..(i - 1) : rows[j].key # name
    ELSE 0

\* the regular expression \{\{([^\{\}]*)\}\} tried at position i of s:
\* NameEnd is the position after the longest run of non-brace characters
RECURSIVE NameEnd(_, _)
NameEnd(s, j) ==
    IF j <= Len(s) /\ s[j] \notin {"{", "}"} THEN NameEnd(s, j + 1) ELSE j
MatchesAt(s, i) ==
    /\ i + 1 <= Len(s)
    /\ s[i] = "{"
    /\ s[i + 1] = "{"
    /\ NameEnd(s, i + 2) + 1 <= Len(s)
    /\ s[NameEnd(s, i + 2)] = "}"
    /\ s[NameEnd(s, i + 2) + 1] = "}"

\* the replacement of the token s[i..j+1] whose capture is s[i+2..j-1]
Replacement(s, i, j, rows) ==
    LET var_name == trim(SubSeq(s, i + 2, j - 1))
        at == find(rows, var_name)
    IN  IF at # 0 THEN rows[at].value ELSE SubSeq(s, i, j + 1)

\* Regex::replace_all: leftmost matches, not overlapping
RECURSIVE replace_all(_, _, _)
replace_all(s, i, rows) ==
    IF i > Len(s) THEN <<>>
    ELSE IF MatchesAt(s, i)
    THEN LET j == NameEnd(s, i + 2)
         IN  Replacement(s, i, j, rows) \o replace_all(s, j + 2, rows)
    ELSE <<s[i]>> \o replace_all(s, i + 1, rows)

\* a resolver that scans its own output once more
parse_var_str_rescans(oragin_str, rows) ==
    replace_all(replace_all(oragin_str, 1, rows), 1, rows)
parse_var_str(oragin_str, rows) == replace_all(oragin_str, 1, rows)

\* the rest of the application while one function is called on its own
InitAppIdle ==
    /\ InitHttpVars
    /\ InitWsVars
    /\ InitSendIdle
    /\ select_test = 1
    /\ overflow_checks = FALSE

\* a call of parse_var_str(text, vars) returns
parse_var_str_return ==
    /\ fn_pc = "called"
    /\ fn_call.fn = "parse_var_str"
    /\ fn_ret' = parse_var_str(fn_call.text, fn_call.vars)
    /\ fn_pc' = "returned"
    /\ UNCHANGED <<fn_call, not_fn_vars>>

InitResolve ==
    /\ InitAppIdle
    /\ fn_pc = "called"
    /\ fn_call \in [fn : {"parse_var_str"}, text : Str(MaxTextLen),
                    vars : Tables(MaxVars)]
    /\ fn_ret = <<>>

NextResolve == parse_var_str_return

SpecResolve == InitResolve /\ [][NextResolve]_vars

(***************************************************************************)
(* Claims about the resolver.                                              *)
(***************************************************************************)
\* the token {{k}}
TokenK == <<"{", "{", "k", "}", "}">>

\* the rows of a table that are enabled and have the key `name`
EnabledRows(rows, name) ==
    {i \in DOMAIN rows : rows[i].key = name /\ ~rows[i].disable}

\* the lookup of the contract: the first enabled row with that key, or 0
find_enabled(rows, name) ==
    IF EnabledRows(rows, name) = {} THEN 0
    ELSE CHOOSE i \in EnabledRows(rows, name) :
            \A j \in EnabledRows(rows, name) : i <= j

ResolverReturned == fn_pc = "returned" /\ fn_call.fn = "parse_var_str"

\* C19 (as claimed): resolving the text {{k}} yields the value of the first
\* enabled variable with key k, and the text itself when no enabled variable
\* has key k (a disabled k leaves the token verbatim).
C19_LookupEnabledOnly ==
    (ResolverReturned /\ fn_call.text = TokenK) =>
        fn_ret = IF find_enabled(fn_call.vars, <<"k">>) = 0
                 THEN TokenK
                 ELSE fn_call.vars[find_enabled(fn_call.vars, <<"k">>)].value

\* the resolver of the contract: every token whose trimmed name is the key of
\* an enabled variable is replaced by that variable's value, every other
\* character is copied
RECURSIVE resolve(_, _, _)
resolve(s, i, rows) ==
    IF i > Len(s) THEN <<>>
    ELSE IF MatchesAt(s, i)
    THEN LET j == NameEnd(s, i + 2)
             at == find_enabled(rows, trim(SubSeq(s, i + 2, j - 1)))
         IN  (IF at # 0 THEN rows[at].value ELSE SubSeq(s, i, j + 1))
                \o resolve(s, j + 2, rows)
    ELSE <<s[i]>> \o resolve(s, i + 1, rows)

\* C20 (as claimed): parse_var_str replaces every {{ name }} token whose
\* trimmed name is the key of an enabled variable by that variable's value
\* and leaves every other character of the text unchanged.
C20_ResolveTokens ==
    ResolverReturned => fn_ret = resolve(fn_call.text, 1, fn_call.vars)

\* the token {{j}}, and variables whose value may itself hold a token
TokenJ == <<"{", "{", "j", "}", "}">>
NestedPairUi ==
    [key : {<<"k">>, <<"j">>}, value : {<<"v">>, TokenJ}, disable : BOOLEAN]
NestedTables(n) == UNION {[1..m -> NestedPairUi] : m \in 0..n}
\* the texts of braces and the letter k
NestedTexts(n) == UNION {[1..m -> {"{", "}", "k"}] : m \in 0..n}

\* parse_var_str called with variables whose values hold tokens
InitResolveNested ==
    /\ InitAppIdle
    /\ fn_pc = "called"
    /\ fn_call \in [fn : {"parse_var_str"}, text : NestedTexts(MaxTextLen),
                    vars : NestedTables(MaxVars)]
    /\ fn_ret = <<>>

SpecResolveNested == InitResolveNested /\ [][NextResolve]_vars

\* the text is one token from its first to its last character
IsToken(s) == MatchesAt(s, 1) /\ NameEnd(s, 3) + 1 = Len(s)
\* the name of the token s, trimmed
NameOf(s) == trim(SubSeq(s, 3, Len(s) - 2))
\* the text is {, one token, }
IsBracedToken(s) ==
    /\ Len(s) >= 2
    /\ s[1] = "{"
    /\ s[Len(s)] = "}"
    /\ IsToken(SubSeq(s, 2, Len(s) - 1))
\* the text r is what one substitution of the token s gives: the value,
\* verbatim, of a variable named by the token, or the token itself
SubstitutedOnce(s, r, rows) ==
    \/ r = s
    \/ \E i \in DOMAIN rows : rows[i].key = NameOf(s) /\ r = rows[i].value

\* C21: substitution is one pass that does not nest: a token resolves to the
\* value of its variable verbatim, also when that value holds a token
\* itself, and {{{var}}} resolves the inner {{var}} in the same way and keeps
\* one brace on each side.
C21_SinglePassNoNesting ==
    ResolverReturned =>
        /\ IsToken(fn_call.text) =>
               SubstitutedOnce(fn_call.text, fn_ret, fn_call.vars)
        /\ IsBracedToken(fn_call.text) =>
               /\ Len(fn_ret) >= 2
               /\ fn_ret[1] = "{"
               /\ fn_ret[Len(fn_ret)] = "}"
               /\ SubstitutedOnce(SubSeq(fn_call.text, 2, Len(fn_call.text) - 1),
                                  SubSeq(fn_ret, 2, Len(fn_ret) - 1),
                                  fn_call.vars)

\* {{{k}}} was resolved with k = {{j}} and j = v, and came back as {{{j}}}
C21_Witness ==
    /\ ResolverReturned
    /\ fn_call.text = <<"{">> \o TokenK \o <<"}">>
    /\ fn_call.vars = <<[key |-> <<"k">>, value |-> TokenJ, disable |-> FALSE],
                        [key |-> <<"j">>, value |-> <<"v">>, disable |-> FALSE]>>
    /\ fn_ret = <<"{">> \o TokenJ \o <<"}">>

(***************************************************************************)
(* util.rs: handle_multipart, get_filename, read_binary.                   *)
(***************************************************************************)
\* the files that exist, and the pieces form-data values are made of
PathA == <<"/", "t", "/", "a", ".", "j">>
PathB == <<"/", "t", "/", "b", ".", "j">>
FileSystem == {PathA, PathB}
Pieces == {<<"@">>, <<" ">>, PathA, PathB, <<"x">>}

RECURSIVE Concat(_)
Concat(ss) == IF ss = <<>> THEN <<>> ELSE Head(ss) \o Concat(Tail(ss))
\* the form-data values: at most n pieces, one after the other
FormValues(n) == {Concat(ps) : ps \in UNION {[1..m -> Pieces] : m \in 0..n}}

\* str::split(sep): the segments between the separators, empty ones included
RECURSIVE split(_, _)
split(s, sep) ==
    IF \E i \in DOMAIN s : s[i] = sep
    THEN LET i == CHOOSE i \in DOMAIN s :
                     s[i] = sep /\ \A j \in 1..(i - 1) : s[j] # sep
         IN  <<SubSeq(s, 1, i - 1)>> \o split(SubSeq(s, i + 1, Len(s)), sep)
    ELSE <<s>>

\* Iterator::filter(|e| !e.is_empty())
RECURSIVE filter_non_empty(_)
filter_non_empty(ss) ==
    IF ss = <<>> THEN <<>>
    ELSE IF Head(ss) = <<>> THEN filter_non_empty(Tail(ss))
    ELSE <<Head(ss)>> \o filter_non_empty(Tail(ss))

\* v.split('@').filter(|e| !e.is_empty()).map(|e| e.trim()).collect()
filepaths(v) ==
    LET segs == filter_non_empty(split(v, "@"))
    IN  [i \in DOMAIN segs |-> trim(segs[i])]

\* read_binary(path): Err for an empty path and for a file that does not
\* exist, otherwise the bytes of the file (named here by its path)
read_binary_ok(path) == path # <<>> /\ path \in FileSystem

\* Path::file_name: the last component of the path
file_name(path) ==
    LET comps == filter_non_empty(split(path, "/"))
    IN  IF comps = <<>> THEN <<>> ELSE comps[Len(comps)]

\* Path::file_stem: the file name without its extension (the part before the
\* last dot, unless the only dot is the first character)
file_stem(path) ==
    LET name == file_name(path)
        dots == {i \in DOMAIN name : name[i] = "."}
    IN  IF dots = {} \/ dots = {1} THEN name
        ELSE SubSeq(name, 1,
                    (CHOOSE i \in dots : \A j \in dots : j <= i) - 1)

\* get_filename(path)
get_filename(path) == file_stem(path)

\* the parts one (k, v) pair adds to the form
PartsOf(k, v) ==
    IF v # <<>> /\ (\E i \in DOMAIN v : v[i] = "@")
    THEN [i \in DOMAIN filepaths(v) |->
            [name |-> k, kind |-> "file", path |-> filepaths(v)[i],
             file_name |-> get_filename(filepaths(v)[i])]]
    ELSE <<[name |-> k, kind |-> "text", path |-> <<>>, file_name |-> v]>>

\* handle_multipart for one pair: Err as soon as one file cannot be read
handle_multipart(k, v) ==
    LET parts == PartsOf(k, v)
    IN  IF \E i \in DOMAIN parts :
              parts[i].kind = "file" /\ ~read_binary_ok(parts[i].path)
        THEN [ok |-> FALSE, parts |-> <<>>]
        ELSE [ok |-> TRUE, parts |-> parts]

\* a call of handle_multipart returns
handle_multipart_return ==
    /\ fn_pc = "called"
    /\ fn_call.fn = "handle_multipart"
    /\ fn_ret' = handle_multipart(fn_call.key, fn_call.value)
    /\ fn_pc' = "returned"
    /\ UNCHANGED <<fn_call, not_fn_vars>>

InitMultipart ==
    /\ InitAppIdle
    /\ fn_pc = "called"
    /\ fn_call \in [fn : {"handle_multipart"}, key : {<<"f">>},
                    value : FormValues(MaxPieces)]
    /\ fn_ret = <<>>

NextMultipart == handle_multipart_return

SpecMultipart == InitMultipart /\ [][NextMultipart]_vars

(***************************************************************************)
(* Claims about the multipart form.                                        *)
(***************************************************************************)
MultipartReturned == fn_pc = "returned" /\ fn_call.fn = "handle_multipart"

\* the value "@/t/a.j @/t/b.j"
TwoFiles == <<"@">> \o PathA \o <<" ">> \o <<"@">> \o PathB

\* C18 (as claimed): every file part carries the base filename of the file
\* it references; the value "@/t/a.j @/t/b.j" yields exactly two file
\* parts, named a.j and b.j.
C18_FilePartsNamed ==
    MultipartReturned /\ fn_ret.ok =>
        /\ \A i \in DOMAIN fn_ret.parts :
              fn_ret.parts[i].kind = "file" =>
                 fn_ret.parts[i].file_name = file_name(fn_ret.parts[i].path)
        /\ fn_call.value = TwoFiles =>
              /\ Len(fn_ret.parts) = 2
              /\ fn_ret.parts[1].file_name = <<"a", ".", "j">>
              /\ fn_ret.parts[2].file_name = <<"b", ".", "j">>

(***************************************************************************)
(* lib.rs: HttpRequestConfig::request_build.  Header names and media types *)
(* are strings of one symbol.                                              *)
(***************************************************************************)
\* lib.rs:6-11
CONTENT_TYPE == <<"Content-Type">>
TEXT_PLAIN == <<"text/plain">>
TEXT_XML == <<"text/xml">>
APPLICATION_JSON == <<"application/json">>
APPLICATION_FORM == <<"application/x-www-form-urlencoded">>
APPLICATION_STREAM == <<"application/octet-stream">>

\* str::to_lowercase
to_lowercase(s) ==
    [i \in DOMAIN s |->
        CASE s[i] = "Content-Type" -> "content-type"
          [] s[i] = "CONTENT-TYPE" -> "content-type"
          [] s[i] = "X-Id"         -> "x-id"
          [] OTHER                 -> s[i]]

\* PairUi::bad and PairUi::tuple, util::tuple_vec, util::real_tuple_vec
bad(row) == row.key = <<>> \/ row.disable
tuple_vec(rows) ==
    LET kept == SelectSeq(rows, LAMBDA r : ~bad(r))
    IN  [i \in DOMAIN kept |-> <<kept[i].key, kept[i].value>>]
real_tuple_vec(rows, table) ==
    [i \in DOMAIN tuple_vec(rows) |->
        <<parse_var_str(tuple_vec(rows)[i][1], table),
          parse_var_str(tuple_vec(rows)[i][2], table)>>]

\* the raw body kinds and the Content-Type request_build gives each
RawTypes == {"Text", "Json", "Form", "XML", "BinaryFile"}
DefaultContentType(body_raw_type) ==
    CASE body_raw_type = "Text"       -> TEXT_PLAIN
      [] body_raw_type = "Json"       -> APPLICATION_JSON
      [] body_raw_type = "Form"       -> APPLICATION_FORM
      [] body_raw_type = "XML"        -> TEXT_XML
      [] body_raw_type = "BinaryFile" -> APPLICATION_STREAM

\* `has_content_type`: some header name, lowercased, equals CONTENT_TYPE
HasContentType(request_header) ==
    \E i \in DOMAIN request_header :
        to_lowercase(request_header[i][1]) = CONTENT_TYPE

\* the parts of all the form-data pairs, in order; ok is FALSE when a file
\* cannot be read
RECURSIVE multipart_of(_)
multipart_of(pairs) ==
    IF pairs = <<>> THEN [ok |-> TRUE, parts |-> <<>>]
    ELSE LET first == handle_multipart(Head(pairs)[1], Head(pairs)[2])
             rest == multipart_of(Tail(pairs))
         IN  IF first.ok /\ rest.ok
             THEN [ok |-> TRUE, parts |-> first.parts \o rest.parts]
             ELSE [ok |-> FALSE, parts |-> <<>>]

BuildErr == [ok |-> FALSE, method |-> "", url |-> <<>>, query |-> <<>>,
             headers |-> <<>>, body |-> <<>>]

\* request_build(&self, vars): the compiled request, or Err
request_build(cfg, table) ==
    LET request_header == real_tuple_vec(cfg.header, table)
        base == [ok |-> TRUE,
                 method |-> cfg.method,
                 url |-> parse_var_str(cfg.url, table),
                 query |-> real_tuple_vec(cfg.query, table),
                 headers |-> request_header,
                 body |-> <<>>]
        default == <<CONTENT_TYPE, DefaultContentType(cfg.body_raw_type)>>
        with_default ==
            IF HasContentType(request_header) THEN request_header
            ELSE Append(request_header, default)
    IN  CASE cfg.body_tab_ui = "Raw" ->
               IF cfg.body_raw = <<>> THEN base
               ELSE IF cfg.body_raw_type = "BinaryFile"
                       /\ ~read_binary_ok(cfg.body_raw)
               THEN BuildErr
               ELSE [base EXCEPT !.headers = with_default,
                                 !.body = <<cfg.body_raw>>]
          [] cfg.body_tab_ui = "Form" ->
               [base EXCEPT
                  !.headers = Append(request_header,
                                     <<CONTENT_TYPE, APPLICATION_FORM>>),
                  !.body = real_tuple_vec(cfg.body_form, table)]
          [] cfg.body_tab_ui = "FormData" ->
               LET form == multipart_of(
                              real_tuple_vec(cfg.body_form_data, table))
               IN  IF form.ok THEN [base EXCEPT !.body = form.parts]
                   ELSE BuildErr

\* the header rows of the templates
HeaderRows ==
    [key : {<<"Content-Type">>, <<"content-type">>, <<"X-Id">>},
     value : {<<"text/csv">>}, disable : BOOLEAN]
HeaderTables(n) == UNION {[1..m -> HeaderRows] : m \in 0..n}

\* the request templates compiled
BuildTemplates ==
    [method : {"GET"},
     url : {<<"u">>},
     body_tab_ui : {"Raw", "Form", "FormData"},
     query : {<<>>},
     header : HeaderTables(MaxHeaders),
     body_form : {<<>>},
     body_form_data :
        {<<>>,
         <<[key |-> <<"f">>, value |-> <<"@">> \o PathA, disable |-> FALSE]>>,
         <<[key |-> <<"f">>, value |-> <<"@", "x">>, disable |-> FALSE]>>},
     body_raw : {<<>>, <<"b">>, PathA},
     body_raw_type : RawTypes]

\* a call of request_build returns
request_build_return ==
    /\ fn_pc = "called"
    /\ fn_call.fn = "request_build"
    /\ fn_ret' = request_build(fn_call.cfg, fn_call.vars)
    /\ fn_pc' = "returned"
    /\ UNCHANGED <<fn_call, not_fn_vars>>

InitBuild ==
    /\ InitAppIdle
    /\ fn_pc = "called"
    /\ fn_call \in [fn : {"request_build"}, cfg : BuildTemplates,
                    vars : {<<>>}]
    /\ fn_ret = <<>>

NextBuild == request_build_return

SpecBuild == InitBuild /\ [][NextBuild]_vars

(***************************************************************************)
(* Claims about the compiled request.                                      *)
(***************************************************************************)
BuildReturned == fn_pc = "returned" /\ fn_call.fn = "request_build"

\* the user has set an enabled Content-Type header, in any letter case
UserContentType(cfg) ==
    \E i \in DOMAIN cfg.header :
        /\ ~bad(cfg.header[i])
        /\ to_lowercase(cfg.header[i].key) = to_lowercase(CONTENT_TYPE)

\* the Content-Type values of a compiled request, in header order
ContentTypesOf(request) ==
    LET cts == SelectSeq(request.headers,
                 LAMBDA h : to_lowercase(h[1]) = to_lowercase(CONTENT_TYPE))
    IN  [i \in DOMAIN cts |-> cts[i][2]]

\* C17 (as claimed): a Raw request with a non-empty body gets the default
\* Content-Type of its kind only when the user has set no enabled
\* Content-Type header (any letter case); with a user header the compiled
\* request carries the user's values and no default.
C17_DefaultContentTypeOnlyIfAbsent ==
    (/\ BuildReturned
     /\ fn_ret.ok
     /\ fn_call.cfg.body_tab_ui = "Raw"
     /\ fn_call.cfg.body_raw # <<>>) =>
        IF UserContentType(fn_call.cfg)
        THEN \A i \in DOMAIN ContentTypesOf(fn_ret) :
                ContentTypesOf(fn_ret)[i] = <<"text/csv">>
        ELSE ContentTypesOf(fn_ret)
                = <<DefaultContentType(fn_call.cfg.body_raw_type)>>

(***************************************************************************)
(* util.rs: http_send with its pre-request and post-response scripts;      *)
(* script_engine.rs: execute_pre_request, execute_post_response;           *)
(* main.rs: the variable snapshot at Send and the merge of modified_vars   *)
(* in handle_http_response.                                                *)
(***************************************************************************)
\* a HashMap built by `.collect()` from (key, value) pairs: a later pair
\* with the same key replaces the earlier one
Keys(rows) == {rows[i].key : i \in DOMAIN rows}
collect(rows) ==
    [k \in Keys(rows) |->
        rows[CHOOSE i \in DOMAIN rows :
                /\ rows[i].key = k
                /\ \A j \in (i + 1)..Len(rows) : rows[j].key # k].value]
\* .iter().filter(|kv| !kv.disable)
enabled(rows) == SelectSeq(rows, LAMBDA r : ~r.disable)

\* PreRequestContext { url, method, headers, params, body, variables }
PreRequestContext(cfg, table) ==
    [url |-> cfg.url,
     method |-> cfg.method,
     headers |-> collect(enabled(cfg.header)),
     params |-> collect(enabled(cfg.query)),
     body |-> cfg.body_raw,
     variables |-> collect(table)]

\* m with m[k] = v
SetKey(m, k, v) == [x \in DOMAIN m \cup {k} |-> IF x = k THEN v ELSE m[x]]

\* the scripts of the templates, by what they do:
\*   ""         no script
\*   "edit"     request.url = "u2"; request.method = "POST";
\*              request.body = "b2"; request.headers.h = "x";
\*              request.params.p = "x"; vars.k = "x";
\*   "set_var"  vars.k = "x";
\*   "add_var"  vars.n = "x";
\*   "throw"    vars.k = "x"; request.url = "u2"; throw "e";
\*   "append"   vars.k = vars.k + "1";
PreScripts == {"", "edit", "throw"}
PostScripts == {"", "set_var", "add_var", "throw"}

\* Engine::eval_with_scope on the scope {request, vars}: the scope after the
\* run, and whether the run ended without an error
eval_with_scope(script, context) ==
    CASE script = "edit" ->
            [ok |-> TRUE,
             scope |-> [url |-> <<"u2">>,
                        method |-> "POST",
                        headers |-> SetKey(context.headers, <<"h">>, <<"x">>),
                        params |-> SetKey(context.params, <<"p">>, <<"x">>),
                        body |-> <<"b2">>,
                        variables |->
                            SetKey(context.variables, <<"k">>, <<"x">>)]]
      [] script = "set_var" ->
            [ok |-> TRUE,
             scope |-> [context EXCEPT
                          !.variables = SetKey(@, <<"k">>, <<"x">>)]]
      [] script = "add_var" ->
            [ok |-> TRUE,
             scope |-> [context EXCEPT
                          !.variables = SetKey(@, <<"n">>, <<"x">>)]]
      [] script = "append" ->
            [ok |-> TRUE,
             scope |-> [context EXCEPT
                          !.variables =
                              IF <<"k">> \in DOMAIN @
                              THEN SetKey(@, <<"k">>, @[<<"k">>] \o <<"1">>)
                              ELSE @]]
      [] script = "throw" ->
            [ok |-> FALSE,
             scope |-> [context EXCEPT
                          !.url = <<"u2">>,
                          !.variables = SetKey(@, <<"k">>, <<"x">>)]]

\* execute_pre_request with the error reported as a success
execute_pre_request_swallows(script, context) ==
    [success |-> TRUE, context |-> eval_with_scope(script, context).scope]

\* ScriptEngine::execute_pre_request: the context extracted from the scope
\* when the script ran, the context it was given when the script failed
execute_pre_request(script, context) ==
    IF eval_with_scope(script, context).ok
    THEN [success |-> TRUE,
          context |-> eval_with_scope(script, context).scope]
    ELSE [success |-> FALSE, context |-> context]

\* ScriptEngine::execute_post_response: only `vars` is extracted
execute_post_response(script, context) ==
    IF eval_with_scope(script, context).ok
    THEN [success |-> TRUE,
          context |-> [context EXCEPT !.variables =
                          eval_with_scope(script, context).scope.variables]]
    ELSE [success |-> FALSE, context |-> context]

\* the rows a HashMap's new keys are pushed as; the scripts add at most one
\* key, so the iteration order of the HashMap does not show
RECURSIVE pushed(_, _)
pushed(m, new) ==
    IF new = {} THEN <<>>
    ELSE LET k == CHOOSE k \in new : TRUE
         IN  <<[key |-> k, value |-> m[k], disable |-> FALSE]>>
                \o pushed(m, new \ {k})

\* for (key, value) in map { find(|h| h.key == key): set its value, or push }
update_rows(rows, m) ==
    [i \in DOMAIN rows |->
        IF rows[i].key \in DOMAIN m /\ i = find(rows, rows[i].key)
        THEN [rows[i] EXCEPT !.value = m[rows[i].key]]
        ELSE rows[i]]
      \o pushed(m, DOMAIN m \ Keys(rows))

\* `script_enabled && !script.trim().is_empty()`
script_runs(cfg, script) == cfg.script_enabled /\ script # ""

\* http_send, pre-request stage: the request template and the variable
\* table after the script's result has been applied
apply_pre_request(cfg, table, result) ==
    IF result.success
    THEN [cfg |-> [cfg EXCEPT
                     !.url = result.context.url,
                     !.body_raw = result.context.body,
                     !.header = update_rows(@, result.context.headers),
                     !.query = update_rows(@, result.context.params)],
          vars |-> update_rows(table, result.context.variables)]
    ELSE [cfg |-> cfg, vars |-> table]

pre_request_stage(cfg, table) ==
    IF script_runs(cfg, cfg.pre_request_script)
    THEN apply_pre_request(cfg, table,
            execute_pre_request(cfg.pre_request_script,
                                PreRequestContext(cfg, table)))
    ELSE [cfg |-> cfg, vars |-> table]

\* http_send, post-response stage: script_vars after the script
post_response_stage(req_cfg, modified_req_cfg, script_vars) ==
    IF script_runs(req_cfg, req_cfg.post_response_script)
    THEN LET result ==
               execute_post_response(req_cfg.post_response_script,
                  PreRequestContext(modified_req_cfg, script_vars))
         IN  IF result.success
             THEN update_rows(script_vars, result.context.variables)
             ELSE script_vars
    ELSE script_vars

\* HttpResponse.modified_vars: Some(script_vars) when scripts are enabled and
\* one of the two scripts is not empty, None otherwise
None == [some |-> FALSE, rows |-> <<>>]
modified_vars(req_cfg, script_vars) ==
    IF req_cfg.script_enabled
       /\ (req_cfg.pre_request_script # "" \/ req_cfg.post_response_script # "")
    THEN [some |-> TRUE, rows |-> script_vars]
    ELSE None

\* handle_http_response: for var in modified_vars { find by key: set the
\* value, or push var.clone() }
RECURSIVE merge_variables(_, _)
merge_variables(table, rows) ==
    IF rows = <<>> THEN table
    ELSE LET var == Head(rows)
             at == find(table, var.key)
         IN  merge_variables(
                IF at # 0 THEN [table EXCEPT ![at].value = var.value]
                ELSE Append(table, var),
                Tail(rows))

\* the templates with scripts, and the project's variables at the start
ScriptTemplates ==
    [method : {"GET"},
     url : {<<"u">>},
     body_tab_ui : {"Raw"},
     query : {<<[key |-> <<"p">>, value |-> <<"a">>, disable |-> FALSE]>>},
     header : {<<[key |-> <<"h">>, value |-> <<"a">>, disable |-> FALSE]>>},
     body_form : {<<>>},
     body_form_data : {<<>>},
     body_raw : {<<"b">>},
     body_raw_type : {"Text"},
     script_enabled : BOOLEAN,
     pre_request_script : PreScripts,
     post_response_script : PostScripts]
InitialVariables ==
    <<[key |-> <<"k">>, value |-> <<"v">>, disable |-> FALSE],
      [key |-> <<"j">>, value |-> <<"v">>, disable |-> FALSE]>>

\* Send button: the template and the project's variables are copied once
\* (Arc) and every request of the batch gets the same copies
ui_send_snapshot(cfg, n) ==
    /\ calls = <<>>
    /\ calls' = [i \in 1..n |->
                    [pc |-> "pre_request",
                     req_cfg |-> cfg,
                     vars |-> project_variables,
                     modified_req_cfg |-> cfg,
                     script_vars |-> project_variables,
                     sent |-> BuildErr,
                     modified_vars |-> None]]
    /\ UNCHANGED <<project_variables, http_vars, ws_vars, fn_vars>>

\* http_send reading the project's variables instead of its copy
http_send_pre_request_live(i) ==
    /\ calls[i].pc = "pre_request"
    /\ LET after == pre_request_stage(calls[i].req_cfg, project_variables)
       IN  calls' = [calls EXCEPT ![i].modified_req_cfg = after.cfg,
                                  ![i].script_vars = after.vars,
                                  ![i].pc = "request"]
    /\ UNCHANGED <<project_variables, http_vars, ws_vars, fn_vars>>

\* http_send: clone of the template and the variables, pre-request script
http_send_pre_request(i) ==
    /\ calls[i].pc = "pre_request"
    /\ LET after == pre_request_stage(calls[i].req_cfg, calls[i].vars)
       IN  calls' = [calls EXCEPT ![i].modified_req_cfg = after.cfg,
                                  ![i].script_vars = after.vars,
                                  ![i].pc = "request"]
    /\ UNCHANGED <<project_variables, http_vars, ws_vars, fn_vars>>

\* http_send: request_build(&script_vars) and send(); an Err of either ends
\* the call with an Err outcome
http_send_request(i, transport_ok) ==
    /\ calls[i].pc = "request"
    /\ LET request == request_build(calls[i].modified_req_cfg,
                                    calls[i].script_vars)
       IN  IF request.ok /\ transport_ok
           THEN calls' = [calls EXCEPT ![i].sent = request,
                                       ![i].pc = "post_response"]
           ELSE calls' = [calls EXCEPT ![i].pc = "err"]
    /\ UNCHANGED <<project_variables, http_vars, ws_vars, fn_vars>>

\* http_send: post-response script, modified_vars, Ok(HttpResponse)
http_send_post_response(i) ==
    /\ calls[i].pc = "post_response"
    /\ LET after == post_response_stage(calls[i].req_cfg,
                                        calls[i].modified_req_cfg,
                                        calls[i].script_vars)
       IN  calls' = [calls EXCEPT
                       ![i].script_vars = after,
                       ![i].modified_vars =
                           modified_vars(calls[i].req_cfg, after),
                       ![i].pc = "responded"]
    /\ UNCHANGED <<project_variables, http_vars, ws_vars, fn_vars>>

\* handle_http_response, Ok arm: the response's modified_vars are merged
\* into the project's variables
handle_http_response_merge(i) ==
    /\ calls[i].pc = "responded"
    /\ project_variables' =
          IF calls[i].modified_vars.some
          THEN merge_variables(project_variables, calls[i].modified_vars.rows)
          ELSE project_variables
    /\ calls' = [calls EXCEPT ![i].pc = "recorded"]
    /\ UNCHANGED <<http_vars, ws_vars, fn_vars>>

\* the user edits the value of a variable in the variables window
ui_edit_variable(j) ==
    /\ j \in DOMAIN project_variables
    /\ project_variables[j].value # <<"e">>
    /\ project_variables' = [project_variables EXCEPT ![j].value = <<"e">>]
    /\ UNCHANGED <<calls, http_vars, ws_vars, fn_vars>>

InitSend ==
    /\ InitHttpVars
    /\ InitWsVars
    /\ InitFnIdle
    /\ select_test = 1
    /\ overflow_checks = FALSE
    /\ project_variables = InitialVariables
    /\ calls = <<>>

NextSend ==
    \/ \E cfg \in ScriptTemplates : \E n \in 1..MaxCalls :
          ui_send_snapshot(cfg, n)
    \/ \E i \in DOMAIN calls : http_send_pre_request(i)
    \/ \E i \in DOMAIN calls : \E transport_ok \in BOOLEAN :
          http_send_request(i, transport_ok)
    \/ \E i \in DOMAIN calls : http_send_post_response(i)
    \/ \E i \in DOMAIN calls : handle_http_response_merge(i)
    \/ \E j \in DOMAIN project_variables : ui_edit_variable(j)

SpecSend == InitSend /\ [][NextSend]_vars

(***************************************************************************)
(* Claims about requests with scripts.                                     *)
(***************************************************************************)
\* how the pre-request script of call c ends, and the scope it leaves
PreScriptRun(c) ==
    eval_with_scope(c.req_cfg.pre_request_script,
                    PreRequestContext(c.req_cfg, c.vars))
PreScriptSucceeded(c) ==
    script_runs(c.req_cfg, c.req_cfg.pre_request_script) /\ PreScriptRun(c).ok
PreScriptFailed(c) ==
    script_runs(c.req_cfg, c.req_cfg.pre_request_script) /\ ~PreScriptRun(c).ok
PostScriptFailed(c) ==
    /\ script_runs(c.req_cfg, c.req_cfg.post_response_script)
    /\ ~eval_with_scope(c.req_cfg.post_response_script,
                        PreRequestContext(c.modified_req_cfg,
                                          c.script_vars)).ok

\* the request of call c has been compiled and sent
Sent(c) == c.pc \in {"post_response", "responded", "recorded"}

\* the pairs of a compiled header or query list
PairsOf(list) == {list[i] : i \in DOMAIN list}

\* C13 (as claimed): after a pre-request script that succeeded, the request
\* compiled and sent has the url, method, body, headers and params the
\* script left in `request`, and is compiled with the variables it left in
\* `vars`.
C13_ScriptEditsReflected ==
    \A i \in DOMAIN calls :
        PreScriptSucceeded(calls[i]) =>
            LET ctx == PreScriptRun(calls[i]).scope
            IN  /\ calls[i].pc = "request" =>
                      collect(calls[i].script_vars) = ctx.variables
                /\ Sent(calls[i]) =>
                      /\ calls[i].sent.url = ctx.url
                      /\ calls[i].sent.method = ctx.method
                      /\ calls[i].sent.body = <<ctx.body>>
                      /\ \A k \in DOMAIN ctx.headers :
                            <<k, ctx.headers[k]>>
                                \in PairsOf(calls[i].sent.headers)
                      /\ \A k \in DOMAIN ctx.params :
                            <<k, ctx.params[k]>>
                                \in PairsOf(calls[i].sent.query)

\* C14: after a pre-request script that failed, the template and the
\* variables used for compilation are the unmodified ones, the request
\* compiles, and the request sent is the one the template compiles to from
\* the unmodified variables (what is sent with scripts disabled).
C14_FailedPreScriptFallsBack ==
    \A i \in DOMAIN calls :
        (PreScriptFailed(calls[i]) /\ calls[i].pc # "pre_request") =>
            /\ calls[i].modified_req_cfg = calls[i].req_cfg
            /\ calls[i].pc = "request" =>
                  /\ calls[i].script_vars = calls[i].vars
                  /\ request_build(calls[i].modified_req_cfg,
                                   calls[i].script_vars).ok
            /\ Sent(calls[i]) =>
                  calls[i].sent =
                      request_build(
                         [calls[i].req_cfg EXCEPT !.script_enabled = FALSE],
                         calls[i].vars)

\* C14 witness: a request whose pre-request script failed has been sent and
\* has got its response.
C14_Witness ==
    \E i \in DOMAIN calls :
        PreScriptFailed(calls[i]) /\ calls[i].pc = "responded"

\* the response of call i is processed in this step
Merges(i) == calls[i].pc = "responded" /\ calls'[i].pc = "recorded"

\* C15 (as claimed): processing the response of a request whose
\* post-response script failed leaves the project's variable table as it
\* was immediately before.
C15_FailedPostScriptKeepsVariables ==
    [][\A i \in DOMAIN calls :
          (Merges(i) /\ PostScriptFailed(calls[i])) =>
              project_variables' = project_variables]_vars

\* the keys the scripts of call c updated or added
Touched(c) ==
    {k \in Keys(c.script_vars) :
        k \notin Keys(c.vars)
        \/ collect(c.script_vars)[k] # collect(c.vars)[k]}

\* C16 (as claimed): processing a response changes only the variables the
\* request's scripts updated or added; every other row of the project's
\* table keeps the value it had immediately before.
C16_MergeChangesOnlyTouched ==
    [][\A i \in DOMAIN calls :
          Merges(i) =>
              /\ Len(project_variables') >= Len(project_variables)
              /\ \A j \in DOMAIN project_variables' :
                    \/ project_variables'[j].key \in Touched(calls[i])
                    \/ /\ j \in DOMAIN project_variables
                       /\ project_variables'[j] = project_variables[j]]_vars


(***************************************************************************)
(* lib.rs: RequestStats, the reservoir of latencies and its queries,       *)
(* called on one statistics object held in fn_call.                        *)
(***************************************************************************)
\* the latencies of the responses, in milliseconds
Latencies == {10, 20, 30, 40}
\* the percentiles asked for; for these and up to MaxSamples samples the f64
\* product (p / 100.0) * n has the ceiling of the exact product
Percents == {0, 1, 25, 50, 75, 95, 99, 100}

\* Option<u128>
NoneU128 == [some |-> FALSE, v |-> 0]
Some(v) == [some |-> TRUE, v |-> v]

min(a, b) == IF a <= b THEN a ELSE b

\* send_before_init: let max_samples = 100000.min(self.send_count), an empty
\* reservoir and counters at 0
ReservoirOfRun(n) ==
    [response_times |-> <<>>, max_response_times |-> min(max_samples, n),
     success |-> 0, failed |-> 0]

\* Vec::sort, ascending
RECURSIVE insert(_, _)
insert(sorted, x) ==
    IF sorted = <<>> THEN <<x>>
    ELSE IF x <= Head(sorted) THEN <<x>> \o sorted
    ELSE <<Head(sorted)>> \o insert(Tail(sorted), x)
RECURSIVE sort(_)
sort(seq) == IF seq = <<>> THEN <<>> ELSE insert(sort(Tail(seq)), Head(seq))

\* ((p / 100.0) * n as f64).ceil() as usize
ceil_of(p, n) == (p * n + 99) \div 100

\* percentile with the lower bound of the index kept (the contract's index)
percentile_clamped(s, p, checks) ==
    IF s.response_times = <<>> THEN [panic |-> FALSE, ret |-> NoneU128]
    ELSE LET n == Len(s.response_times)
             c == ceil_of(p, n)
             index == IF c = 0 THEN 0 ELSE c - 1
         IN  [panic |-> FALSE,
              ret |-> Some(sort(s.response_times)[min(index, n - 1) + 1])]

\* RequestStats::percentile.  `ceil() as usize - 1` at 0: a build with
\* overflow checks panics, another build wraps to usize::MAX and
\* index.min(len - 1) is then the last index; sorted is 0-based in the code
percentile(s, p, checks) ==
    IF s.response_times = <<>> THEN [panic |-> FALSE, ret |-> NoneU128]
    ELSE LET n == Len(s.response_times)
             c == ceil_of(p, n)
         IN  IF c = 0 /\ checks THEN [panic |-> TRUE, ret |-> NoneU128]
             ELSE LET index == IF c = 0 THEN UsizeMax ELSE c - 1
                  IN  [panic |-> FALSE,
                       ret |-> Some(sort(s.response_times)[min(index, n - 1) + 1])]

\* add_response_time that keeps appending
add_response_time_unbounded(s, time, random) ==
    [s EXCEPT !.response_times = Append(@, time)]

\* RequestStats::add_response_time; random is rand::random::<usize>()
add_response_time(s, time, random) ==
    IF Len(s.response_times) < s.max_response_times
    THEN [s EXCEPT !.response_times = Append(@, time)]
    ELSE IF s.max_response_times > 0
    THEN [s EXCEPT !.response_times[(random % s.max_response_times) + 1] = time]
    ELSE s

\* a call stats.add_response_time(time)
stats_add_response_time(time, random) ==
    /\ fn_pc = "ready"
    /\ fn_call.fn = "RequestStats"
    /\ fn_call.adds < MaxAdds
    /\ fn_call' = [fn_call EXCEPT
                      !.stats = add_response_time(@, time, random),
                      !.adds = @ + 1]
    /\ fn_ret' = [op |-> "add_response_time", p |-> 0, time |-> time,
                  ret |-> NoneU128]
    /\ UNCHANGED <<fn_pc, not_fn_vars>>

\* a call stats.percentile(p)
stats_percentile(p) ==
    /\ fn_pc = "ready"
    /\ fn_call.fn = "RequestStats"
    /\ LET r == percentile(fn_call.stats, p, overflow_checks)
       IN  /\ fn_pc' = IF r.panic THEN "panicked" ELSE "ready"
           /\ fn_ret' = [op |-> "percentile", p |-> p, time |-> 0,
                         ret |-> r.ret]
    /\ UNCHANGED <<fn_call, not_fn_vars>>

\* a run of n requests has just reset the statistics
InitReservoir ==
    /\ InitHttpVars
    /\ InitWsVars
    /\ InitSendIdle
    /\ select_test = 1
    /\ fn_pc = "ready"
    /\ \E n \in 0..MaxSamples :
          fn_call = [fn |-> "RequestStats", send_count |-> n,
                     stats |-> ReservoirOfRun(n), adds |-> 0]
    /\ fn_ret = [op |-> "none", p |-> 0, time |-> 0, ret |-> NoneU128]

NextReservoir ==
    \/ \E time \in Latencies : \E random \in 0..(MaxSamples - 1) :
          stats_add_response_time(time, random)
    \/ \E p \in Percents : stats_percentile(p)

SpecReservoir == InitReservoir /\ [][NextReservoir]_vars

(***************************************************************************)
(* Claims about the reservoir.                                             *)
(***************************************************************************)
PercentileCalled == fn_call.fn = "RequestStats" /\ fn_ret.op = "percentile"

\* C22 (as claimed): for a reservoir of n >= 1 samples and p in [0, 100],
\* percentile(p) returns the element at index ceil(p/100 * n) - 1, clamped to
\* [0, n-1], of the samples sorted ascending; on an empty reservoir it
\* returns None.
C22_PercentileIndex ==
    PercentileCalled =>
        /\ fn_pc # "panicked"
        /\ fn_ret.ret =
              percentile_clamped(fn_call.stats, fn_ret.p, overflow_checks).ret

\* the capacity fixed at the start of the run
CapacityOfRun == min(max_samples, fn_call.send_count)

\* a call of add_response_time on the statistics of a run; a run is started
\* only with send_count > 0
AddInRun ==
    /\ fn_call.fn = "RequestStats"
    /\ fn_call.send_count > 0
    /\ fn_call'.adds = fn_call.adds + 1

\* C23: in a run, the number of stored latencies never exceeds
\* min(100000, send_count); a call of add_response_time below capacity
\* appends the sample, and a call at capacity overwrites exactly one existing
\* slot with it and leaves the length unchanged.
C23_ReservoirBounded ==
    [][AddInRun =>
          LET old == fn_call.stats.response_times
              new == fn_call'.stats.response_times
          IN  /\ Len(new) <= CapacityOfRun
              /\ IF Len(old) < CapacityOfRun
                 THEN new = Append(old, fn_ret'.time)
                 ELSE /\ Len(new) = Len(old)
                      /\ \E idx \in DOMAIN old :
                            new = [old EXCEPT ![idx] = fn_ret'.time]]_vars

\* a reservoir of two or more slots is full and its last sample overwrote one
\* of the slots
C23_Witness ==
    /\ fn_call.fn = "RequestStats"
    /\ fn_ret.op = "add_response_time"
    /\ fn_call.send_count >= 2
    /\ Len(fn_call.stats.response_times) = CapacityOfRun
    /\ fn_call.adds > CapacityOfRun
    /\ \E idx \in DOMAIN fn_call.stats.response_times :
          /\ fn_call.stats.response_times[idx] = fn_ret.time
          /\ \E other \in DOMAIN fn_call.stats.response_times :
                fn_call.stats.response_times[other] # fn_ret.time


(***************************************************************************)
(* lib.rs: RequestStats::success_rate.  An f64 is modelled by the exact    *)
(* fraction it approximates, in lowest terms.                              *)
(***************************************************************************)
RECURSIVE gcd(_, _)
gcd(a, b) == IF b = 0 THEN a ELSE gcd(b, a % b)
\* the fraction num / den (den > 0) in lowest terms
Ratio(num, den) ==
    LET g == gcd(num, den)
    IN  [num |-> num \div g, den |-> den \div g]
\* a / b and a * b on fractions
Over(a, b) == Ratio(a.num * b.den, a.den * b.num)
Times(a, b) == Ratio(a.num * b.num, a.den * b.den)
\* n as f64
as_f64(n) == [num |-> n, den |-> 1]

\* success_rate without the factor 100
success_rate_fraction(s) ==
    IF total_requests(s) = 0 THEN as_f64(0)
    ELSE Over(as_f64(s.success), as_f64(total_requests(s)))

\* RequestStats::success_rate
success_rate(s) ==
    LET total == total_requests(s)
    IN  IF total = 0 THEN as_f64(0)
        ELSE Times(Over(as_f64(s.success), as_f64(total)), as_f64(100))

\* a call stats.success_rate()
stats_success_rate ==
    /\ fn_pc = "called"
    /\ fn_call.fn = "success_rate"
    /\ fn_ret' = success_rate(fn_call.stats)
    /\ fn_pc' = "returned"
    /\ UNCHANGED <<fn_call, not_fn_vars>>

\* statistics with any counters up to MaxCounter
InitRate ==
    /\ InitAppIdle
    /\ fn_pc = "called"
    /\ fn_call \in [fn : {"success_rate"},
                    stats : [success : 0..MaxCounter, failed : 0..MaxCounter]]
    /\ fn_ret = as_f64(0)

NextRate == stats_success_rate

SpecRate == InitRate /\ [][NextRate]_vars

RateReturned == fn_pc = "returned" /\ fn_call.fn = "success_rate"

\* C24: success_rate() equals success / (success + failed) * 100 when
\* success + failed > 0, and 0 when no request has completed.
C24_SuccessRate ==
    RateReturned =>
        LET success == fn_call.stats.success
            failed == fn_call.stats.failed
        IN  /\ fn_ret.den > 0
            /\ IF success + failed = 0
               THEN fn_ret.num = 0
               ELSE fn_ret.num * (success + failed) = success * 100 * fn_ret.den

\* after 7 successes and 3 failures the rate is 70
C24_Witness ==
    /\ RateReturned
    /\ fn_call.stats = [success |-> 7, failed |-> 3]
    /\ fn_ret = [num |-> 70, den |-> 1]


(***************************************************************************)
(* Claims about the counters of a batch run.                               *)
(***************************************************************************)
\* C25 (as claimed): stats.sending is never decremented while it is 0: an
\* outcome recorded in a test finds sending > 0 there, under every
\* interleaving of Send, Cancel, selection and arrival of outcomes.
C25_NoDecrementAtZero ==
    [][(TakesOutcome /\ select_test # NoTest)
          => stats[select_test].sending > 0]_vars

\* the test of run i still holds the statistics of that run (load_project
\* and a later Send replace them)
HoldsRun(i) == send_count[batch[i].test] = batch[i].count

\* the Send button of the test of run i is enabled again: sending == 0 with
\* total_end_time set
RunEnded(i) ==
    /\ stats[batch[i].test].sending = 0
    /\ stats[batch[i].test].total_end_time

\* C26 (as claimed): every run that is started eventually has sending == 0
\* with total_end_time set in its test (the transport answering every
\* request and the UI thread running its frames, not having panicked),
\* whatever the user selects meanwhile.
C26_RunEventuallyEnds ==
    \A i \in 1..MaxBatches :
        [](i \in DOMAIN batch =>
              <>(\/ app = "panicked"
                 \/ /\ i \in DOMAIN batch
                    /\ (RunEnded(i) \/ ~HoldsRun(i))))

\* all the outcomes of run i have been processed
RunCompleted(i) == batch[i].pc = "done" /\ batch[i].taken = batch[i].count

\* C27 (as claimed): from the start of a run of send_count requests until
\* all its outcomes are processed, after every outcome processed in its test
\* sending + success + failed equals send_count and pending is 0.
C27_CountersAddUp ==
    [][\A i \in DOMAIN batch :
          (/\ TakesOutcome
           /\ select_test = batch[i].test
           /\ HoldsRun(i)
           /\ ~RunCompleted(i))
          => LET s == stats'[batch[i].test]
             IN  /\ s.sending + s.success + s.failed = batch[i].count
                 /\ s.pending = 0]_vars


(***************************************************************************)
(* main.rs, send_http_batch: the requests of one batch and the copies of   *)
(* the template and the variables they share.                              *)
(***************************************************************************)
\* templates whose query parameter is {{k}} and whose pre-request script
\* reads the variable it writes
SnapshotTemplates ==
    [method : {"GET"},
     url : {<<"u">>},
     body_tab_ui : {"Raw"},
     query : {<<[key |-> <<"p">>, value |-> TokenK, disable |-> FALSE]>>},
     header : {<<[key |-> <<"h">>, value |-> <<"a">>, disable |-> FALSE]>>},
     body_form : {<<>>},
     body_form_data : {<<>>},
     body_raw : {<<"b">>},
     body_raw_type : {"Text"},
     script_enabled : BOOLEAN,
     pre_request_script : {"", "append"},
     post_response_script : {"", "set_var"}]

NextBatch ==
    \/ \E cfg \in SnapshotTemplates : \E n \in 1..MaxCalls :
          ui_send_snapshot(cfg, n)
    \/ \E i \in DOMAIN calls : http_send_pre_request(i)
    \/ \E i \in DOMAIN calls : \E transport_ok \in BOOLEAN :
          http_send_request(i, transport_ok)
    \/ \E i \in DOMAIN calls : http_send_post_response(i)
    \/ \E i \in DOMAIN calls : handle_http_response_merge(i)
    \/ \E j \in DOMAIN project_variables : ui_edit_variable(j)

SpecBatch == InitSend /\ [][NextBatch]_vars

\* the request of call c has been compiled and sent
Compiled(c) == c.pc \in {"post_response", "responded", "recorded"}

\* what the pre-request script of every request works on, and what every
\* request is compiled from, is the shared copy of the template and of the
\* variables, changed by the request's own script only
SnapshotInputs ==
    \A i \in DOMAIN calls :
        LET c == calls[i]
            stage == pre_request_stage(c.req_cfg, c.vars)
        IN  /\ c.vars = calls[1].vars
            /\ c.req_cfg = calls[1].req_cfg
            /\ c.pc = "request" =>
                  c.modified_req_cfg = stage.cfg /\ c.script_vars = stage.vars
            /\ Compiled(c) => c.sent = request_build(stage.cfg, stage.vars)
            /\ \A j \in DOMAIN calls :
                  (Compiled(c) /\ Compiled(calls[j])) => c.sent = calls[j].sent

\* the copies are taken when Send is pressed and never change afterwards
SnapshotKept ==
    IF calls = <<>>
    THEN \A i \in DOMAIN calls' :
            calls'[i].vars = project_variables /\ calls'[i].req_cfg \in SnapshotTemplates
    ELSE \A i \in DOMAIN calls :
            calls'[i].vars = calls[i].vars /\ calls'[i].req_cfg = calls[i].req_cfg

\* C28: all requests of a batch are compiled from the template and the
\* variable table captured when Send was pressed: a variable changed by the
\* script of one request, or by the user during the run, is not visible to
\* the pre-request script or the compilation of another request.
C28_BatchUsesSnapshot == []SnapshotInputs /\ [][SnapshotKept]_vars

\* one request's change of k has been merged into the project's variables
\* and the user has edited j, and another request of the batch was compiled
\* afterwards from the values captured at Send
C28_Witness ==
    /\ Len(calls) = 2
    /\ calls[1].pc = "recorded"
    /\ calls[1].req_cfg.script_enabled
    /\ calls[1].req_cfg.pre_request_script = "append"
    /\ calls[2].pc = "post_response"
    /\ calls[2].vars = InitialVariables
    /\ project_variables =
          <<[key |-> <<"k">>, value |-> <<"v", "1">>, disable |-> FALSE],
            [key |-> <<"j">>, value |-> <<"e">>, disable |-> FALSE]>>
    /\ calls[2].sent.query = <<<<(<<"p">>), <<"v", "1">>>>>>


(***************************************************************************)
(* Claims about the Send commands of the WebSocket session.                *)
(***************************************************************************)
\* an error entry is in the shared message log
ErrorLogged ==
    \E k \in DOMAIN ws_messages :
        ws_messages[k] \in {"ConnectError", "SendError", "ReadError",
                            "SendErrorDisconnected"}

\* a frame has been written to a connection
FrameWritten == last_write.conn # 0

\* C29 (as claimed): a Send the manager has accepted, the one that sets up
\* the connection included, leads to a frame written to the connection or to
\* an error entry in the message log.
C29_SendLeadsToFrameOrError ==
    (mgr_pc = "connecting") ~> (FrameWritten \/ ErrorLogged)


(***************************************************************************)
(* Claims about the segments of a form-data value.                         *)
(***************************************************************************)
\* the segments of v between the @ that are not empty once trimmed
RECURSIVE trimmed_non_empty(_)
trimmed_non_empty(ss) ==
    IF ss = <<>> THEN <<>>
    ELSE IF trim(Head(ss)) = <<>> THEN trimmed_non_empty(Tail(ss))
    ELSE <<trim(Head(ss))>> \o trimmed_non_empty(Tail(ss))
FileReferences(v) == trimmed_non_empty(split(v, "@"))

\* C30 (as claimed): of a form-data value with an @, exactly the segments
\* that are not empty after trimming are file references: when each of them
\* names a readable file the form is built with one file part per such
\* segment, and a segment of whitespace only adds no part and does not make
\* the compilation fail.
C30_BlankSegmentsIgnored ==
    (/\ MultipartReturned
     /\ \E i \in DOMAIN fn_call.value : fn_call.value[i] = "@"
     /\ \A i \in DOMAIN FileReferences(fn_call.value) :
           read_binary_ok(FileReferences(fn_call.value)[i]))
    => /\ fn_ret.ok
       /\ Len(fn_ret.parts) = Len(FileReferences(fn_call.value))
       /\ \A i \in DOMAIN fn_ret.parts :
             /\ fn_ret.parts[i].kind = "file"
             /\ fn_ret.parts[i].path = FileReferences(fn_call.value)[i]

=============================================================================
